---------------------------- MODULE Spec2Model ----------------------------
(***************************************************************************)
(* A model of src/shamir_solver.js (class ShamirSecretSharing).            *)
(*                                                                         *)
(* The program computes with JavaScript Numbers, i.e. IEEE-754 binary64    *)
(* values.  They are modelled exactly: a finite Number is a sign and a     *)
(* dyadic rational m * 2^e whose significand m is an arbitrary-precision   *)
(* natural (a little-endian sequence of limbs), and every arithmetic       *)
(* operation is the exact operation followed by round-to-nearest-even to   *)
(* 53 significant bits, with NaN, the infinities and the signed zeros.     *)
(***************************************************************************)
EXTENDS Integers, Sequences, FiniteSets, TLC

(***************************************************************************)
(* Arbitrary-precision naturals: little-endian limbs, no leading zero      *)
(* limb, zero is the empty sequence.                                       *)
(***************************************************************************)
Base == 2^15

Max(a, b) == IF a >= b THEN a ELSE b

Min(a, b) == IF a <= b THEN a ELSE b

Limb(a, i) == IF i <= Len(a) THEN a[i] ELSE 0

RECURSIVE BigNorm(_)
BigNorm(a) ==
    IF a = <<>> THEN <<>>
    ELSE IF a[Len(a)] = 0 THEN BigNorm(SubSeq(a, 1, Len(a) - 1))
    ELSE a

RECURSIVE BigFromNat(_)
BigFromNat(n) == IF n = 0 THEN <<>> ELSE <<n % Base>> \o BigFromNat(n \div Base)

RECURSIVE BigToNat(_)
BigToNat(a) == IF a = <<>> THEN 0 ELSE a[1] + Base * BigToNat(Tail(a))

RECURSIVE BigCmpFrom(_, _, _)
BigCmpFrom(a, b, i) ==
    IF i = 0 THEN 0
    ELSE IF a[i] > b[i] THEN 1
    ELSE IF a[i] < b[i] THEN -1
    ELSE BigCmpFrom(a, b, i - 1)

BigCmp(a, b) ==
    IF Len(a) > Len(b) THEN 1
    ELSE IF Len(a) < Len(b) THEN -1
    ELSE BigCmpFrom(a, b, Len(a))

RECURSIVE BigAddFrom(_, _, _, _)
BigAddFrom(a, b, i, c) ==
    IF i > Len(a) /\ i > Len(b) THEN (IF c = 0 THEN <<>> ELSE <<c>>)
    ELSE LET s == Limb(a, i) + Limb(b, i) + c
         IN  <<s % Base>> \o BigAddFrom(a, b, i + 1, s \div Base)

BigAdd(a, b) == BigAddFrom(a, b, 1, 0)

RECURSIVE BigSubFrom(_, _, _, _)
BigSubFrom(a, b, i, c) ==
    IF i > Len(a) THEN <<>>
    ELSE LET s == a[i] - Limb(b, i) - c
         IN  IF s < 0 THEN <<s + Base>> \o BigSubFrom(a, b, i + 1, 1)
             ELSE <<s>> \o BigSubFrom(a, b, i + 1, 0)

\* a - b for a >= b
BigSub(a, b) == BigNorm(BigSubFrom(a, b, 1, 0))

RECURSIVE BigMulSmallFrom(_, _, _, _)
BigMulSmallFrom(a, s, i, c) ==
    IF i > Len(a) THEN (IF c = 0 THEN <<>> ELSE <<c>>)
    ELSE LET p == a[i] * s + c
         IN  <<p % Base>> \o BigMulSmallFrom(a, s, i + 1, p \div Base)

\* a * s for 0 <= s <= Base
BigMulSmall(a, s) == IF s = 0 THEN <<>> ELSE BigNorm(BigMulSmallFrom(a, s, 1, 0))

Zeros(n) == [i \in 1..n |-> 0]

RECURSIVE BigMulFrom(_, _, _)
BigMulFrom(a, b, i) ==
    IF i > Len(b) THEN <<>>
    ELSE BigAdd(IF b[i] = 0 \/ a = <<>> THEN <<>>
                ELSE Zeros(i - 1) \o BigMulSmall(a, b[i]),
                BigMulFrom(a, b, i + 1))

BigMul(a, b) == BigMulFrom(a, b, 1)

\* <<quotient, remainder>> of a by s, 1 <= s <= Base, from the top limb down
RECURSIVE BigDivModSmallFrom(_, _, _, _)
BigDivModSmallFrom(a, s, i, r) ==
    IF i = 0 THEN <<<<>>, r>>
    ELSE LET rest == BigDivModSmallFrom(a, s, i - 1, (r * Base + a[i]) % s)
         IN  <<rest[1] \o <<(r * Base + a[i]) \div s>>, rest[2]>>

\* a quotient and remainder with the quotient's leading zero limbs removed
NormQuotient(qr) == <<BigNorm(qr[1]), qr[2]>>

BigDivModSmall(a, s) == NormQuotient(BigDivModSmallFrom(a, s, Len(a), 0))

RECURSIVE SmallBitLen(_)
SmallBitLen(n) == IF n = 0 THEN 0 ELSE 1 + SmallBitLen(n \div 2)

LimbBits == SmallBitLen(Base - 1)

BigBitLen(a) ==
    IF a = <<>> THEN 0 ELSE (Len(a) - 1) * LimbBits + SmallBitLen(a[Len(a)])

\* a * 2^n
BigShl(a, n) ==
    IF a = <<>> THEN <<>>
    ELSE Zeros(n \div LimbBits) \o BigMulSmall(a, 2^(n % LimbBits))

\* floor(a / 2^n)
BigShr(a, n) ==
    IF n \div LimbBits >= Len(a) THEN <<>>
    ELSE BigDivModSmall(SubSeq(a, n \div LimbBits + 1, Len(a)), 2^(n % LimbBits))[1]

BigIsOdd(a) == a # <<>> /\ a[1] % 2 = 1

BigBit(a, i) == (Limb(a, i \div LimbBits + 1) \div 2^(i % LimbBits)) % 2

RECURSIVE SmallTrailingZeros(_)
SmallTrailingZeros(n) == IF n % 2 = 1 THEN 0 ELSE 1 + SmallTrailingZeros(n \div 2)

RECURSIVE BigTrailingZerosFrom(_, _)
BigTrailingZerosFrom(a, i) ==
    IF a[i] = 0 THEN LimbBits + BigTrailingZerosFrom(a, i + 1)
    ELSE SmallTrailingZeros(a[i])

\* the number of trailing zero bits of a > 0
BigTrailingZeros(a) == BigTrailingZerosFrom(a, 1)

\* the largest d in lo..hi with b * d <= r (b * lo <= r is given)
RECURSIVE DivDigit(_, _, _, _)
DivDigit(r, b, lo, hi) ==
    IF lo = hi THEN lo
    ELSE LET mid == (lo + hi + 1) \div 2
         IN  IF BigCmp(BigMulSmall(b, mid), r) <= 0
             THEN DivDigit(r, b, mid, hi)
             ELSE DivDigit(r, b, lo, mid - 1)

\* one step of long division: the quotient limbs q so far, the running
\* remainder cur, and its quotient digit d by b
DivStepDigit(b, q, cur, d) == << <<d>> \o q, BigSub(cur, BigMulSmall(b, d)) >>

DivStepWith(b, q, cur) == DivStepDigit(b, q, cur, DivDigit(cur, b, 0, Base - 1))

\* the step for the next lower limb, after the step up for the limbs above
DivStep(limb, b, up) == DivStepWith(b, up[1], BigNorm(<<limb>> \o up[2]))

\* <<quotient limbs, remainder>> of the limbs i.. of a by b > 0: long division
RECURSIVE BigDivModFrom(_, _, _)
BigDivModFrom(a, b, i) ==
    IF i > Len(a) THEN << <<>>, <<>> >>
    ELSE DivStep(a[i], b, BigDivModFrom(a, b, i + 1))

BigDivMod(a, b) == NormQuotient(BigDivModFrom(a, b, 1))

(***************************************************************************)
(* JavaScript Numbers (IEEE-754 binary64).  A finite Number is             *)
(* (-1)^neg * m * 2^e with m odd (or m = 0 and e = 0), so that equal       *)
(* records are equal Numbers (+0 and -0 apart).                            *)
(***************************************************************************)
Precision == 53

MaxExponent == 1023

MinExponent == -1074

NaN == [kind |-> "nan", neg |-> FALSE, m |-> <<>>, e |-> 0]

Infinity(neg) == [kind |-> "inf", neg |-> neg, m |-> <<>>, e |-> 0]

Dyadic(neg, m, e) == [kind |-> "fin", neg |-> neg, m |-> m, e |-> e]

Zero(neg) == Dyadic(neg, <<>>, 0)

IsNaN(a) == a.kind = "nan"

IsFinite(a) == a.kind = "fin"

IsZero(a) == a.kind = "fin" /\ a.m = <<>>

\* (-1)^neg * m * 2^e with the tz trailing zero bits of m moved into e
CanonShift(neg, m, e, tz) == Dyadic(neg, BigShr(m, tz), e + tz)

\* the canonical record of (-1)^neg * m * 2^e
Canon(neg, m, e) ==
    IF m = <<>> THEN Zero(neg) ELSE CanonShift(neg, m, e, BigTrailingZeros(m))

\* (-1)^neg * m * 2^e, or the infinity when it is above the largest Number
Finite(neg, m, e) ==
    IF BigBitLen(m) + e - 1 > MaxExponent THEN Infinity(neg) ELSE Canon(neg, m, e)

\* the low n bits of m
LowBits(m, n) == BigSub(m, BigShl(BigShr(m, n), n))

\* the kept bits q of a significand, rounded up or not: c is -1, 0 or 1 as
\* the dropped bits are below, at or above half a unit of q
RoundKept(neg, q, e, sticky, c) ==
    Finite(neg,
           IF c > 0 \/ (c = 0 /\ (sticky \/ BigIsOdd(q))) THEN BigAdd(q, <<1>>) ELSE q,
           e)

\* m rounded to nearest, ties to even, with its low drop bits dropped
RoundDropping(neg, m, e, sticky, drop) ==
    IF drop = 0 THEN Finite(neg, m, e)
    ELSE RoundKept(neg, BigShr(m, drop), e + drop, sticky,
                   BigCmp(LowBits(m, drop), BigShl(<<1>>, drop - 1)))

\* The Number nearest to (-1)^neg * (m + f) * 2^e, where 0 <= f < 1 and f > 0
\* iff sticky: round to nearest, ties to even; gradual underflow; overflow to
\* an infinity.  With sticky, m has more than Precision bits.
RoundToDouble(neg, m, e, sticky) ==
    IF m = <<>> THEN Zero(neg)
    ELSE RoundDropping(neg, m, e, sticky,
                       Max(Max(BigBitLen(m) - Precision, MinExponent - e), 0))

\* (-1)^an * ma * 2^e + (-1)^bn * mb * 2^e for an # bn, c comparing ma to mb
DyDifference(an, ma, bn, mb, e, c) ==
    IF c = 0 THEN Zero(FALSE)
    ELSE IF c > 0 THEN Dyadic(an, BigSub(ma, mb), e)
    ELSE Dyadic(bn, BigSub(mb, ma), e)

\* (-1)^an * ma * 2^e + (-1)^bn * mb * 2^e
DyAddAligned(an, ma, bn, mb, e) ==
    IF an = bn THEN Dyadic(an, BigAdd(ma, mb), e)
    ELSE DyDifference(an, ma, bn, mb, e, BigCmp(ma, mb))

\* the exact sum of two finite Numbers, not rounded
DyAdd(a, b) ==
    DyAddAligned(a.neg, BigShl(a.m, a.e - Min(a.e, b.e)),
                 b.neg, BigShl(b.m, b.e - Min(a.e, b.e)), Min(a.e, b.e))

\* the Number nearest to an exact value d
RoundDyadic(d) == RoundToDouble(d.neg, d.m, d.e, FALSE)

\* the exact product of two finite Numbers, not rounded
DyMul(a, b) == Dyadic(a.neg # b.neg, BigMul(a.m, b.m), a.e + b.e)

FNeg(a) == IF IsNaN(a) THEN NaN ELSE [a EXCEPT !.neg = ~a.neg]

\* the position above the leading bit of a finite nonzero Number
TopBit(a) == BigBitLen(a.m) + a.e

\* operands whose leading bits are further apart than this do not overlap
GuardGap == Precision + 3

\* a plus (same) or minus (~same) a positive quantity below a quarter of the
\* last place of a: a's significand extended by guard bits, the rest sticky
AddTinyShifted(a, same, s) ==
    RoundToDouble(a.neg,
                  IF same THEN BigShl(a.m, s) ELSE BigSub(BigShl(a.m, s), <<1>>),
                  a.e - s, TRUE)

AddTiny(a, same) == AddTinyShifted(a, same, GuardGap - BigBitLen(a.m))

\* a + b
FAdd(a, b) ==
    IF IsNaN(a) \/ IsNaN(b) THEN NaN
    ELSE IF a.kind = "inf" /\ b.kind = "inf"
         THEN (IF a.neg = b.neg THEN a ELSE NaN)
    ELSE IF a.kind = "inf" THEN a
    ELSE IF b.kind = "inf" THEN b
    ELSE IF IsZero(a) \/ IsZero(b) \/ (TopBit(a) - TopBit(b)) \in -GuardGap..GuardGap
         THEN RoundDyadic(DyAdd(a, b))
    ELSE IF TopBit(a) > TopBit(b) THEN AddTiny(a, a.neg = b.neg)
    ELSE AddTiny(b, a.neg = b.neg)

\* a - b
FSub(a, b) == FAdd(a, FNeg(b))

\* a * b
FMul(a, b) ==
    IF IsNaN(a) \/ IsNaN(b) THEN NaN
    ELSE IF a.kind = "inf" \/ b.kind = "inf"
         THEN (IF IsZero(a) \/ IsZero(b) THEN NaN ELSE Infinity(a.neg # b.neg))
    ELSE RoundDyadic(DyMul(a, b))

\* the Number nearest to (-1)^neg * (q + r / b) * 2^e, qr = <<q, r>>
RoundQuotient(neg, qr, e) == RoundToDouble(neg, qr[1], e, qr[2] # <<>>)

\* a / b for finite nonzero a and b: a quotient of Precision + 2 bits or more
\* from a shifted left by s, the rest sticky
DivShifted(a, b, s) ==
    RoundQuotient(a.neg # b.neg, BigDivMod(BigShl(a.m, s), b.m), a.e - b.e - s)

\* a / b
FDiv(a, b) ==
    IF IsNaN(a) \/ IsNaN(b) THEN NaN
    ELSE IF a.kind = "inf"
         THEN (IF b.kind = "inf" THEN NaN ELSE Infinity(a.neg # b.neg))
    ELSE IF b.kind = "inf" THEN Zero(a.neg # b.neg)
    ELSE IF IsZero(b)
         THEN (IF IsZero(a) THEN NaN ELSE Infinity(a.neg # b.neg))
    ELSE IF IsZero(a) THEN Zero(a.neg # b.neg)
    ELSE DivShifted(a, b, Max(0, Precision + 2 + BigBitLen(b.m) - BigBitLen(a.m)))

\* -1, 0 or 1 as |a| is below, equal to or above |b|, for finite a and b
MagCmp(a, b) ==
    IF a.m = <<>> \/ b.m = <<>>
    THEN (IF a.m = b.m THEN 0 ELSE IF a.m = <<>> THEN -1 ELSE 1)
    ELSE LET ta == BigBitLen(a.m) + a.e
             tb == BigBitLen(b.m) + b.e
             e  == Min(a.e, b.e)
         IN  IF ta > tb THEN 1
             ELSE IF ta < tb THEN -1
             ELSE BigCmp(BigShl(a.m, a.e - e), BigShl(b.m, b.e - e))

\* -1, 0 or 1 as a is below, equal to or above b, for a and b not NaN
FCmp(a, b) ==
    IF a.kind = "inf" \/ b.kind = "inf"
    THEN LET va == IF a.kind = "inf" THEN (IF a.neg THEN -1 ELSE 1) ELSE 0
             vb == IF b.kind = "inf" THEN (IF b.neg THEN -1 ELSE 1) ELSE 0
         IN  IF va < vb THEN -1 ELSE IF va > vb THEN 1 ELSE 0
    ELSE IF IsZero(a) /\ IsZero(b) THEN 0
    ELSE IF a.neg /\ ~b.neg THEN -1
    ELSE IF ~a.neg /\ b.neg THEN 1
    ELSE IF a.neg THEN MagCmp(b, a)
    ELSE MagCmp(a, b)

\* a < b
FLt(a, b) == ~IsNaN(a) /\ ~IsNaN(b) /\ FCmp(a, b) < 0

\* a > b
FGt(a, b) == ~IsNaN(a) /\ ~IsNaN(b) /\ FCmp(a, b) > 0

\* a <= b
FLe(a, b) == ~IsNaN(a) /\ ~IsNaN(b) /\ FCmp(a, b) <= 0

\* a === b
FEq(a, b) == ~IsNaN(a) /\ ~IsNaN(b) /\ FCmp(a, b) = 0

\* Math.abs(a)
MathAbs(a) == IF IsNaN(a) THEN NaN ELSE [a EXCEPT !.neg = FALSE]

\* the integer part q of a magnitude taken to the nearest integer, a tie
\* towards +Infinity: c is -1, 0 or 1 as the fraction is below, at or above 1/2
RoundHalfUp(neg, q, c) ==
    Canon(neg, IF (IF neg THEN c > 0 ELSE c >= 0) THEN BigAdd(q, <<1>>) ELSE q, 0)

\* Math.round(a): the nearest integer, a tie towards +Infinity; a result of
\* zero keeps the sign of a
MathRound(a) ==
    IF a.kind # "fin" \/ a.e >= 0 THEN a
    ELSE RoundHalfUp(a.neg, BigShr(a.m, -a.e),
                     BigCmp(LowBits(a.m, -a.e), BigShl(<<1>>, -a.e - 1)))

\* the integer (-1)^neg * m, exactly (a Number when m has 53 bits or fewer)
Integer(neg, m) == Canon(neg, m, 0)

\* the Number of an integer n of the model
FromInt(n) == Canon(n < 0, BigFromNat(IF n < 0 THEN -n ELSE n), 0)

\* the Number nearest to the integer (-1)^neg * m
FromBig(neg, m) == RoundToDouble(neg, m, 0, FALSE)

(***************************************************************************)
(* Strings are sequences of one-character strings.  A message is a         *)
(* sequence of pieces whose concatenation is the JavaScript string.        *)
(***************************************************************************)
DigitChars ==
    <<"0", "1", "2", "3", "4", "5", "6", "7", "8", "9", "a", "b", "c", "d", "e",
      "f", "g", "h", "i", "j", "k", "l", "m", "n", "o", "p", "q", "r", "s", "t",
      "u", "v", "w", "x", "y", "z">>

UpperChars ==
    <<"0", "1", "2", "3", "4", "5", "6", "7", "8", "9", "A", "B", "C", "D", "E",
      "F", "G", "H", "I", "J", "K", "L", "M", "N", "O", "P", "Q", "R", "S", "T",
      "U", "V", "W", "X", "Y", "Z">>

\* the value of the character c as a digit, 36 for a character that is none
DigitValue(c) ==
    IF \E i \in DOMAIN DigitChars : DigitChars[i] = c
    THEN (CHOOSE i \in DOMAIN DigitChars : DigitChars[i] = c) - 1
    ELSE IF \E i \in DOMAIN UpperChars : UpperChars[i] = c
    THEN (CHOOSE i \in DOMAIN UpperChars : UpperChars[i] = c) - 1
    ELSE 36

WhiteSpace == {" ", "\t", "\n", "\r"}

RECURSIVE TrimStart(_)
TrimStart(str) ==
    IF str # <<>> /\ str[1] \in WhiteSpace THEN TrimStart(Tail(str)) ELSE str

\* the longest prefix of str made of digits of radix R
RECURSIVE DigitPrefix(_, _)
DigitPrefix(str, R) ==
    IF str # <<>> /\ DigitValue(str[1]) < R
    THEN <<str[1]>> \o DigitPrefix(Tail(str), R)
    ELSE <<>>

\* the integer the digits Z denote in radix R, from the left, acc so far
\* (acc is compared first so that it is a value before the next digit)
RECURSIVE MathInt(_, _, _)
MathInt(Z, R, acc) ==
    IF acc = <<>> /\ Z = <<>> THEN <<>>
    ELSE IF Z = <<>> THEN acc
    ELSE MathInt(Tail(Z), R,
                 BigAdd(BigMulSmall(acc, R), BigFromNat(DigitValue(Z[1]))))

\* ToInt32 of a Number: truncated, modulo 2^32, as a signed 32-bit integer
Two32 == BigShl(<<1>>, 32)

\* the natural w below 2^32 as a signed 32-bit integer
Signed32(w) ==
    IF BigCmp(w, BigShl(<<1>>, 31)) >= 0 THEN -BigToNat(BigSub(Two32, w))
    ELSE BigToNat(w)

\* (-1)^neg * u modulo 2^32, for u below 2^32
Wrap32(neg, u) == Signed32(IF neg /\ u # <<>> THEN BigSub(Two32, u) ELSE u)

ToInt32(a) ==
    IF a.kind # "fin" \/ a.m = <<>> \/ a.e >= 32 THEN 0
    ELSE Wrap32(a.neg, LowBits(IF a.e >= 0 THEN BigShl(a.m, a.e)
                               ELSE BigShr(a.m, -a.e), 32))

\* the Number of the digits Z in radix R, NaN when there is none
ParseNumeral(neg, Z, R) ==
    IF Z = <<>> THEN NaN ELSE FromBig(neg, MathInt(Z, R, <<>>))

\* S after its sign, R0 the radix given (0 for none): R0 outside 2..36 is
\* NaN; a prefix 0x or 0X is skipped for radix 16 or none, and makes it 16
ParseUnsigned(neg, S, R0) ==
    IF R0 # 0 /\ R0 \notin 2..36 THEN NaN
    ELSE IF R0 \in {0, 16} /\ Len(S) >= 2 /\ S[1] = "0" /\ S[2] \in {"x", "X"}
    THEN ParseNumeral(neg, DigitPrefix(SubSeq(S, 3, Len(S)), 16), 16)
    ELSE IF R0 = 0 THEN ParseNumeral(neg, DigitPrefix(S, 10), 10)
    ELSE ParseNumeral(neg, DigitPrefix(S, R0), R0)

\* S0 the string after its leading white space: the sign, then the rest
ParseSigned(S0, R0) ==
    ParseUnsigned(S0 # <<>> /\ S0[1] = "-",
                  IF S0 # <<>> /\ S0[1] \in {"+", "-"} THEN Tail(S0) ELSE S0, R0)

\* ECMAScript fixes the result of parseInt for up to this many significant
\* digits; beyond, an implementation may approximate
SignificantDigits == 20

\* parseInt(string, radix) of ECMAScript for a string and a Number radix
\* (NaN for a radix left out).  The integer of the digits is computed exactly
\* and then rounded to a Number, which is the result ECMAScript fixes for up
\* to SignificantDigits digits; the inputs of the model stay within them.
parseInt(string, radix) == ParseSigned(TrimStart(string), ToInt32(radix))

\* the digits of the natural n in radix b, lower case, most significant first
RECURSIVE EncodeDigits(_, _)
EncodeDigits(n, b) ==
    IF n = <<>> THEN <<>>
    ELSE EncodeDigits(BigDivModSmall(n, b)[1], b)
         \o <<DigitChars[BigDivModSmall(n, b)[2] + 1]>>

BigToDecimal(a) == EncodeDigits(a, 10)

IntToString(n) ==
    IF n = 0 THEN <<"0">>
    ELSE IF n < 0 THEN <<"-">> \o BigToDecimal(BigFromNat(-n))
    ELSE BigToDecimal(BigFromNat(n))

\* String(a) for NaN, the infinities and the integers (below 10^21)
NumberToString(a) ==
    IF a.kind = "nan" THEN <<"NaN">>
    ELSE IF a.kind = "inf" THEN (IF a.neg THEN <<"-Infinity">> ELSE <<"Infinity">>)
    ELSE IF a.m = <<>> THEN <<"0">>
    ELSE (IF a.neg THEN <<"-">> ELSE <<>>) \o BigToDecimal(BigShl(a.m, a.e))

(***************************************************************************)
(* Completion of a call: a returned value, or a thrown Error with its      *)
(* message.  null is the empty sequence and a value v is <<v>>.            *)
(***************************************************************************)
Null == <<>>

Some(v) == <<v>>

Return(v) == [threw |-> FALSE, val |-> Some(v), message |-> Null]

Throw(msg) == [threw |-> TRUE, val |-> Null, message |-> msg]

(***************************************************************************)
(* class ShamirSecretSharing                                               *)
(***************************************************************************)
\* the value parseInt gave for value in base: an Error when it is NaN
Decoded(value, base, result) ==
    IF IsNaN(result)
    THEN Throw(<<"Invalid value \"">> \o value \o <<"\" for base ">>
               \o NumberToString(base))
    ELSE Return(result)

\* static baseToDecimal(value, base)
baseToDecimal(value, base) ==
    IF FLt(base, FromInt(2)) \/ FGt(base, FromInt(36))
    THEN Throw(<<"Invalid base: ">> \o NumberToString(base)
               \o <<". Base must be between 2 and 36.">>)
    ELSE Decoded(value, base, parseInt(value, base))

\* points.slice(0, k)
Slice(points, k) ==
    IF k >= 0 THEN SubSeq(points, 1, Min(k, Len(points)))
    ELSE SubSeq(points, 1, Max(Len(points) + k, 0))

\* the inner loop over j: li *= (at - xj) / (xi - xj) for j # i, from j on
\* (li is looked at first so that it is a value before the next factor)
RECURSIVE BasisLoop(_, _, _, _, _)
BasisLoop(selectedPoints, i, at, j, li) ==
    IF IsNaN(li) /\ j > Len(selectedPoints) THEN NaN
    ELSE IF j > Len(selectedPoints) THEN li
    ELSE IF i # j
    THEN BasisLoop(selectedPoints, i, at, j + 1,
                   FMul(li, FDiv(FSub(at, selectedPoints[j][1]),
                                 FSub(selectedPoints[i][1], selectedPoints[j][1]))))
    ELSE BasisLoop(selectedPoints, i, at, j + 1, li)

\* the outer loop over i: sum += yi * li, from i on
\* (sum is looked at first so that it is a value before the next term)
RECURSIVE SumLoop(_, _, _, _)
SumLoop(selectedPoints, at, i, sum) ==
    IF IsNaN(sum) /\ i > Len(selectedPoints) THEN NaN
    ELSE IF i > Len(selectedPoints) THEN sum
    ELSE SumLoop(selectedPoints, at, i + 1,
                 FAdd(sum, FMul(selectedPoints[i][2],
                                BasisLoop(selectedPoints, i, at, 1, FromInt(1)))))

\* static lagrangeInterpolation(points, k)
lagrangeInterpolation(points, k) ==
    IF Len(points) < k
    THEN Throw(<<"Need at least ">> \o IntToString(k) \o <<" points, but only ">>
               \o IntToString(Len(points)) \o <<" provided">>)
    ELSE Return(MathRound(SumLoop(Slice(points, k), FromInt(0), 1, FromInt(0))))

\* const tolerance = 1e-10: the Number nearest to 1 / 10^10
tolerance ==
    FDiv(FromInt(1), FromBig(FALSE, BigMul(BigFromNat(100000), BigFromNat(100000))))

\* the entry pushed for a test point, given its difference
ValidationResult(testX, testY, calculatedY, difference) ==
    [point |-> <<testX, testY>>, calculated |-> calculatedY,
     difference |-> difference, valid |-> FLe(difference, tolerance)]

\* the entry pushed for a test point, given the value calculated at it
ValidationEntry(testX, testY, calculatedY) ==
    ValidationResult(testX, testY, calculatedY, MathAbs(FSub(calculatedY, testY)))

\* the loop over the test points of validateSolution, from point t on
RECURSIVE ValidationLoop(_, _, _)
ValidationLoop(points, selectedPoints, t) ==
    IF t > Len(points) THEN <<>>
    ELSE <<ValidationEntry(points[t][1], points[t][2],
                           SumLoop(selectedPoints, points[t][1], 1, FromInt(0)))>>
         \o ValidationLoop(points, selectedPoints, t + 1)

\* the object validateSolution returns for its validationResults
ValidationReport(validationResults) ==
    [isValid |-> \A r \in DOMAIN validationResults : validationResults[r].valid,
     results |-> validationResults, tolerance |-> tolerance]

\* static validateSolution(points, secret, k)
validateSolution(points, secret, k) ==
    ValidationReport(ValidationLoop(points, Slice(points, k), 1))

\* The input record: keys is null (absent) or <<[n, k]>>, where n and k are
\* null (absent) or <<integer>>; shares maps the indices that have an entry
\* to [base, value], two strings.
Falsy(field) == field = Null \/ field[1] = 0

\* the body of the loop of parseTestCase for an entry i that is present, y the
\* completion of its baseToDecimal: the points with (i, y), or the Error
DecodedPoint(i, points, y) ==
    IF y.threw
    THEN Throw(<<"Error decoding point ">> \o IntToString(i) \o <<": ">> \o y.message)
    ELSE Return(Append(points, <<FromInt(i), y.val[1]>>))

\* the rest of the loop after entry i, step the completion of its body
RECURSIVE ParseLoop(_, _, _, _)
ParseNext(testCase, n, i, step) ==
    IF step.threw THEN step ELSE ParseLoop(testCase, n, i + 1, step.val[1])

\* the loop over i = 1..n of parseTestCase, from i on, with the points so far:
\* the points, or the Error of the first entry that does not decode
ParseLoop(testCase, n, i, points) ==
    IF i > n THEN Return(points)
    ELSE IF i \in DOMAIN testCase.shares
    THEN ParseNext(testCase, n, i,
                   DecodedPoint(i, points,
                                baseToDecimal(testCase.shares[i].value,
                                              parseInt(testCase.shares[i].base, NaN))))
    ELSE ParseLoop(testCase, n, i + 1, points)

\* the end of parseTestCase, parsed the completion of its loop
ParsedCase(parsed, n, k) ==
    IF parsed.threw THEN parsed
    ELSE IF Len(parsed.val[1]) < k
    THEN Throw(<<"Insufficient points: need ">> \o IntToString(k)
               \o <<", found ">> \o IntToString(Len(parsed.val[1])))
    ELSE Return([points |-> parsed.val[1], n |-> n, k |-> k])

\* static parseTestCase(testCase)
parseTestCase(testCase) ==
    IF testCase.keys = Null \/ Falsy(testCase.keys[1].n) \/ Falsy(testCase.keys[1].k)
    THEN Throw(<<"Invalid test case format: missing keys.n or keys.k">>)
    ELSE ParsedCase(ParseLoop(testCase, testCase.keys[1].n[1], 1, <<>>),
                    testCase.keys[1].n[1], testCase.keys[1].k[1])

\* the catch block of solve
Failure(error) ==
    [success |-> FALSE, secret |-> Null, points |-> Null, parameters |-> Null,
     validation |-> Null, error |-> Some(error.message)]

\* the object the try block of solve returns
Success(points, n, k, secret, validation) ==
    [success |-> TRUE, secret |-> Some(secret), points |-> Some(points),
     parameters |-> Some([n |-> n, k |-> k, degree |-> k - 1]),
     validation |-> Some(validation), error |-> Null]

\* the try block after lagrangeInterpolation, secret its completion
SolveSecret(points, n, k, secret) ==
    IF secret.threw THEN secret
    ELSE Return(Success(points, n, k, secret.val[1],
                        validateSolution(points, secret.val[1], k)))

\* the try block after parseTestCase, parsed its completion
SolveParsed(parsed) ==
    IF parsed.threw THEN parsed
    ELSE SolveSecret(parsed.val[1].points, parsed.val[1].n, parsed.val[1].k,
                     lagrangeInterpolation(parsed.val[1].points, parsed.val[1].k))

\* the try block of solve: its value, or the first Error thrown in it
SolveTry(testCase) == SolveParsed(parseTestCase(testCase))

\* a try block with no catch
Uncaught(completion) == completion

\* try { ... } catch (error) { return Failure }
Catch(completion) ==
    IF completion.threw THEN Return(Failure(completion)) ELSE completion

\* static solve(testCase)
solve(testCase) == Catch(SolveTry(testCase))

\* a tag counted from 1
IndexedFromOne(index, result) == [testCaseIndex |-> index + 1] @@ result

\* { testCaseIndex: index, ...result }
IndexedResult(index, result) == [testCaseIndex |-> index] @@ result


(***************************************************************************)
(* The state: the operation in progress (pc), its arguments and its        *)
(* completion, and for solveMultiple the array, the index of map and the   *)
(* array being built.                                                      *)
(***************************************************************************)
VARIABLES pc, value, base, points, k, testCase, testCases, index, result, results

vars == <<pc, value, base, points, k, testCase, testCases, index, result, results>>

NoCase == [keys |-> Null, shares |-> [i \in {} |-> Null]]

\* the variables an operation does not use
Idle(used) ==
    /\ "value" \in used \/ (value = <<>> /\ base = NaN)
    /\ "points" \in used \/ (points = <<>> /\ k = 0)
    /\ "testCase" \in used \/ testCase = NoCase
    /\ "testCases" \in used \/ (testCases = <<>> /\ index = 0 /\ results = <<>>)

(***************************************************************************)
(* Inputs of baseToDecimal.                                                *)
(***************************************************************************)
\* encode(n, b): the numeral of the natural n in radix b
encode(n, b) == IF n = <<>> THEN <<"0">> ELSE EncodeDigits(n, b)

Radices == 2..36

Two53 == BigShl(<<1>>, Precision)

\* naturals below, at and above 2^53
RoundTripNumbers ==
    {BigFromNat(0), BigFromNat(1), BigFromNat(35), BigFromNat(36), BigFromNat(1295),
     BigFromNat(2147483647), BigSub(Two53, <<1>>), Two53, BigAdd(Two53, <<1>>),
     BigAdd(Two53, <<2>>), BigAdd(BigShl(<<1>>, 60), <<1>>)}

\* strings with a character that is no digit, a sign, white space or nothing
MalformedStrings ==
    {<<"1", "2", "x">>, <<"-", "5">>, <<"+", "5">>, <<" ", "1", "2">>,
     <<"1", "2", " ">>, <<"z">>, <<>>, <<"0", "x", "1", "f">>, <<"1", ".", "5">>,
     <<"A", "b">>, <<"7">>}

\* the values of base tried with them: 0, 1, 37 and NaN besides the radices
Bases == {FromInt(b) : b \in 0..37} \cup {NaN}

InitDecode ==
    /\ pc = "baseToDecimal"
    /\ \/ \E n \in RoundTripNumbers, b \in Radices :
            /\ Len(encode(n, b)) <= SignificantDigits
            /\ value = encode(n, b)
            /\ base = FromInt(b)
       \/ value \in MalformedStrings /\ base \in Bases
    /\ result = Null
    /\ Idle({"value"})

BaseToDecimal ==
    /\ pc = "baseToDecimal"
    /\ result' = baseToDecimal(value, base)
    /\ pc' = "done"
    /\ UNCHANGED <<value, base, points, k, testCase, testCases, index, results>>

SpecDecode == InitDecode /\ [][BaseToDecimal]_vars

(* C2: for every base b in 2..36 and every natural n, also n above 2^53,
   baseToDecimal(encode(n, b), b) returns n exactly. *)
C2_RoundTripExact ==
    pc = "done" =>
        \A n \in RoundTripNumbers, b \in Radices :
            (value = encode(n, b) /\ base = FromInt(b))
                => (~result.threw /\ result.val = Some(Integer(FALSE, n)))

\* the numeral of 2^53 + 1 in base 10 has been decoded to 2^53
C2_FailingInput ==
    /\ pc = "done"
    /\ value = encode(BigAdd(Two53, <<1>>), 10)
    /\ base = FromInt(10)
    /\ result = Return(Integer(FALSE, Two53))

\* a character of str is no digit of radix b
HasInvalidCharacter(str, b) == \E i \in DOMAIN str : DigitValue(str[i]) >= b

(* C4: baseToDecimal(value, base) fails with an Error whenever value holds a
   character that is no digit of the base, wherever it stands: after valid
   digits, a sign, white space before or after. *)
C4_InvalidCharacterRejected ==
    pc = "done" =>
        \A b \in Radices :
            (base = FromInt(b) /\ HasInvalidCharacter(value, b)) => result.threw

\* "-5" in base 8 has been decoded to -5
C4_FailingInput ==
    /\ pc = "done"
    /\ value = <<"-", "5">>
    /\ base = FromInt(8)
    /\ result = Return(FromInt(-5))

(***************************************************************************)
(* Inputs of lagrangeInterpolation.                                        *)
(***************************************************************************)
\* the value at x of the polynomial with the coefficients c (c[1] the constant
\* term), exactly: Horner's rule from coefficient i down
RECURSIVE Horner(_, _, _, _)
Horner(c, x, i, acc) ==
    IF i = 0 THEN (IF acc.m = <<>> THEN Zero(FALSE) ELSE Canon(acc.neg, acc.m, acc.e))
    ELSE Horner(c, x, i - 1, DyAdd(DyMul(acc, x), c[i]))

PolyValue(c, x) == Horner(c, x, Len(c), Zero(FALSE))

\* a finite value that is a Number
Representable(a) == BigBitLen(a.m) <= Precision

MaxTerms == 3

Two51 == BigShl(<<1>>, 51)

Coefficients ==
    {Integer(TRUE, Two51), FromInt(-1), FromInt(0), FromInt(2),
     Integer(FALSE, BigAdd(BigMulSmall(Two51, 3), <<1>>))}

Polynomials == UNION {[1..d -> Coefficients] : d \in 1..MaxTerms}

MaxX == 3

\* sequences of d pairwise distinct x
DistinctXs(d) ==
    {xs \in [1..d -> 0..MaxX] : \A i, j \in 1..d : i # j => xs[i] # xs[j]}

\* the points at xs of the polynomial c
PointsOn(c, xs) == [i \in DOMAIN xs |-> <<FromInt(xs[i]), PolyValue(c, FromInt(xs[i]))>>]

MaxPoints == 3

SmallPoints == {<<FromInt(x), FromInt(y)>> : x \in 0..2, y \in {0, 1, 5}}

InitInterpolate ==
    /\ pc = "lagrangeInterpolation"
    /\ \/ \E c \in Polynomials, xs \in DistinctXs(MaxTerms) :
            /\ \A i \in 1..Len(c) : Representable(PolyValue(c, FromInt(xs[i])))
            /\ points = PointsOn(c, SubSeq(xs, 1, Len(c)))
            /\ k = Len(c)
       \/ /\ points \in UNION {[1..len -> SmallPoints] : len \in 0..MaxPoints}
          /\ k \in -1..(MaxPoints + 1)
    /\ result = Null
    /\ Idle({"points"})

LagrangeInterpolation ==
    /\ pc = "lagrangeInterpolation"
    /\ result' = lagrangeInterpolation(points, k)
    /\ pc' = "done"
    /\ UNCHANGED <<value, base, points, k, testCase, testCases, index, results>>

SpecInterpolate == InitInterpolate /\ [][LagrangeInterpolation]_vars

\* the points pts have pairwise distinct x
DistinctAbscissas(pts) ==
    \A i, j \in DOMAIN pts : i # j => ~FEq(pts[i][1], pts[j][1])

\* the points pts lie on the polynomial with the coefficients c
OnPolynomial(pts, c) ==
    \A i \in DOMAIN pts : pts[i][2] = PolyValue(c, pts[i][1])

(* C1: for every polynomial of degree d with integer coefficients and every
   d+1 points on it with pairwise distinct x, lagrangeInterpolation(points,
   d+1) returns exactly the constant term of the polynomial (for d = 0 the y
   of the single point). *)
C1_ConstantTermRecovered ==
    pc = "done" =>
        \A c \in Polynomials :
            (k = Len(c) /\ Len(points) = k /\ DistinctAbscissas(points)
             /\ OnPolynomial(points, c))
                => (~result.threw /\ FEq(result.val[1], c[1]))

\* the three points at 1, 2, 3 of (3 * 2^51 + 1) x - 2^51 x^2, constant term
\* 0, have given the secret 1
C1_FailingInput ==
    /\ pc = "done"
    /\ points = PointsOn(<<FromInt(0), Integer(FALSE, BigAdd(BigMulSmall(Two51, 3), <<1>>)),
                           Integer(TRUE, Two51)>>, <<1, 2, 3>>)
    /\ points[3][2] = FromInt(3)
    /\ k = 3
    /\ result = Return(FromInt(1))

(* C6: whenever two of the first k points given to lagrangeInterpolation
   have the same x, the call fails with an Error; it returns no value, in
   particular neither NaN nor an infinity. *)
C6_DuplicateAbscissaRejected ==
    (pc = "done" /\ k >= 1 /\ ~DistinctAbscissas(Slice(points, k))) => result.threw

\* two points with x = 0 have given NaN
C6_FailingInput ==
    /\ pc = "done"
    /\ points = << <<FromInt(0), FromInt(0)>>, <<FromInt(0), FromInt(0)>> >>
    /\ k = 2
    /\ result = Return(NaN)

(* C7: lagrangeInterpolation(points, k) fails with the insufficient-points
   Error whenever points.length >= k >= 1 does not hold, for k above the
   number of points and for k zero or negative alike; it returns a secret only
   when 1 <= k <= points.length. *)
C7_PreconditionEnforced ==
    pc = "done" => (result.threw <=> ~(1 <= k /\ k <= Len(points)))

\* two points and k = 0 have given the secret 0
C7_FailingInput ==
    /\ pc = "done"
    /\ points = << <<FromInt(1), FromInt(5)>>, <<FromInt(2), FromInt(0)>> >>
    /\ k = 0
    /\ result = Return(FromInt(0))

(***************************************************************************)
(* Inputs of solve.                                                        *)
(***************************************************************************)
Share(b, v) == [base |-> b, value |-> v]

Keys(n, threshold) == Some([n |-> n, k |-> threshold])

ExampleIndices == {1, 2, 3, 6}

\* the entries of exampleTestCase1
ExampleShare(i) ==
    CASE i = 1 -> Share(<<"1", "0">>, <<"4">>)
      [] i = 2 -> Share(<<"2">>, <<"1", "1", "1">>)
      [] i = 3 -> Share(<<"1", "0">>, <<"1", "2">>)
      [] i = 6 -> Share(<<"4">>, <<"2", "1", "3">>)

exampleTestCase1 ==
    [keys |-> Keys(Some(4), Some(3)), shares |-> [i \in ExampleIndices |-> ExampleShare(i)]]

\* another value, a value with no digit, a base out of range
AlternateShares ==
    {Share(<<"1", "0">>, <<"5">>), Share(<<"1", "0">>, <<"z">>),
     Share(<<"3", "7">>, <<"1">>)}

\* the records with the entries of the example or alternates at some of its
\* indices
ExampleShaped ==
    UNION {{[i \in I |-> IF pick[i] = 0 THEN ExampleShare(i)
                         ELSE Share(<<"1", "0">>, <<"5">>)] : pick \in [I -> {0, 1}]}
           \cup {[i \in I |-> IF i = bad THEN alt ELSE ExampleShare(i)] :
                    bad \in I, alt \in AlternateShares}
           : I \in SUBSET ExampleIndices}

KeyChoices ==
    {Null} \cup {Keys(n, kk) : n \in {Null, Some(0), Some(3), Some(4), Some(6)},
                              kk \in {Null, Some(-1), Some(0), Some(2), Some(3), Some(5)}}

MaxIndex == 4

\* the shares at the indices I of the polynomial c, in decimal
PolynomialShares(c, I) ==
    [i \in I |-> Share(<<"1", "0">>,
                       encode(BigShl(PolyValue(c, FromInt(i)).m,
                                     PolyValue(c, FromInt(i)).e), 10))]

\* the polynomials with a constant term and a slope
Lines == [1..2 -> Coefficients]

InitSolve ==
    /\ pc = "solve"
    /\ \/ \E sh \in ExampleShaped, ks \in KeyChoices :
            testCase = [keys |-> ks, shares |-> sh]
       \/ \E c \in Lines, I \in SUBSET (1..MaxIndex) :
            /\ \A i \in I : ~PolyValue(c, FromInt(i)).neg
            /\ testCase = [keys |-> Keys(Some(MaxIndex), Some(Len(c))),
                           shares |-> PolynomialShares(c, I)]
    /\ result = Null
    /\ Idle({"testCase"})

Solve ==
    /\ pc = "solve"
    /\ result' = solve(testCase)
    /\ pc' = "done"
    /\ UNCHANGED <<value, base, points, k, testCase, testCases, index, results>>

SpecSolve == InitSolve /\ [][Solve]_vars

(***************************************************************************)
(* The interpolating polynomial in exact arithmetic, for points with       *)
(* integer coordinates: P(x) = ExactNumerator(pts, x) / ExactDenominator.  *)
(***************************************************************************)
\* the product over j # i, from j on, of (x - xj)
RECURSIVE ExactProduct(_, _, _, _)
ExactProduct(pts, i, x, j) ==
    IF j > Len(pts) THEN FromInt(1)
    ELSE IF j = i THEN ExactProduct(pts, i, x, j + 1)
    ELSE DyMul(DyAdd(x, FNeg(pts[j][1])), ExactProduct(pts, i, x, j + 1))

\* the product over l # i, from l on, of the denominators of the basis of l
RECURSIVE ExactCofactor(_, _, _)
ExactCofactor(pts, i, l) ==
    IF l > Len(pts) THEN FromInt(1)
    ELSE IF l = i THEN ExactCofactor(pts, i, l + 1)
    ELSE DyMul(ExactProduct(pts, l, pts[l][1], 1), ExactCofactor(pts, i, l + 1))

ExactDenominator(pts) == ExactCofactor(pts, 0, 1)

RECURSIVE ExactNumeratorFrom(_, _, _)
ExactNumeratorFrom(pts, x, i) ==
    IF i > Len(pts) THEN Zero(FALSE)
    ELSE DyAdd(DyMul(pts[i][2], DyMul(ExactProduct(pts, i, x, 1),
                                      ExactCofactor(pts, i, 1))),
               ExactNumeratorFrom(pts, x, i + 1))

ExactNumerator(pts, x) == ExactNumeratorFrom(pts, x, 1)

\* the natural |d| of an exact integer d
Magnitude(d) == BigShl(d.m, d.e)

\* P(0) is an integer
IntegerConstantTerm(pts) ==
    BigDivMod(Magnitude(ExactNumerator(pts, FromInt(0))),
              Magnitude(ExactDenominator(pts)))[2] = <<>>

\* a <= b for exact values
ExactLe(a, b) == LET d == DyAdd(b, FNeg(a)) IN d.m = <<>> \/ ~d.neg

\* |P(x) - y| <= tolerance for the point pt = (x, y)
WithinTolerance(pts, pt) ==
    ExactLe(MathAbs(DyAdd(ExactNumerator(pts, pt[1]),
                          FNeg(DyMul(pt[2], ExactDenominator(pts))))),
            DyMul(tolerance, MathAbs(ExactDenominator(pts))))

\* the object solve returned
Solved == result.val[1]

(* C3: parseTestCase makes a point of every entry of the input record,
   whatever its index, also above keys.n; for exampleTestCase1 solve gives
   the points (1,4), (2,7), (3,12), (6,39), the secret 3 and a validation
   entry for (6,39) that is valid. *)
C3_EveryEntryParsed ==
    (pc = "done" /\ Solved.success) =>
        /\ \A i \in DOMAIN testCase.shares :
              \E t \in DOMAIN Solved.points[1] : Solved.points[1][t][1] = FromInt(i)
        /\ testCase = exampleTestCase1 =>
              /\ Solved.points[1] = << <<FromInt(1), FromInt(4)>>, <<FromInt(2), FromInt(7)>>,
                                       <<FromInt(3), FromInt(12)>>, <<FromInt(6), FromInt(39)>> >>
              /\ Solved.secret = Some(FromInt(3))
              /\ \E t \in DOMAIN Solved.validation[1].results :
                    /\ Solved.validation[1].results[t].point = <<FromInt(6), FromInt(39)>>
                    /\ Solved.validation[1].results[t].valid

\* exampleTestCase1 has given three points, without the entry 6
C3_FailingInput ==
    /\ pc = "done"
    /\ testCase = exampleTestCase1
    /\ Solved.success
    /\ Solved.points[1] = << <<FromInt(1), FromInt(4)>>, <<FromInt(2), FromInt(7)>>,
                             <<FromInt(3), FromInt(12)>> >>
    /\ Len(Solved.validation[1].results) = 3

\* the input has no keys, or keys without n or without k
MissingKeys(input) ==
    input.keys = Null \/ input.keys[1].n = Null \/ input.keys[1].k = Null

\* the completion of the try block of solve for input and the object solve
\* returned: missing keys are an Error, and an Error is in the object
Caught(input, completion, obj) ==
    /\ MissingKeys(input) => completion.threw
    /\ completion.threw => (~obj.success /\ obj.error = Some(completion.message))

(* C5: solve throws for no input: an Error raised in it (keys.n or keys.k
   missing, a base out of range, a value with no digit, fewer than k points)
   gives a result with success false, the message as error, and secret,
   points, parameters and validation null; a result with success true has
   error null. *)
C5_SolveNeverThrows ==
    pc = "done" =>
        /\ ~result.threw
        /\ Caught(testCase, SolveTry(testCase), Solved)
        /\ ~Solved.success =>
              /\ Solved.error # Null
              /\ Solved.secret = Null /\ Solved.points = Null
              /\ Solved.parameters = Null /\ Solved.validation = Null
        /\ Solved.success => Solved.error = Null

\* solve has caught the Error of a value that did not decode
C5_DecodeErrorCaught ==
    /\ pc = "done"
    /\ parseTestCase(testCase).threw
    /\ ~MissingKeys(testCase)
    /\ ~Solved.success
    /\ SubSeq(Solved.error[1], 1, 1) = <<"Error decoding point ">>

(* C8: when the polynomial through the first k points has a constant term
   that is no integer, solve returns success false and no rounded secret. *)
C8_NonIntegerRejected ==
    (pc = "done" /\ Solved.success /\ Solved.parameters[1].k >= 1)
        => IntegerConstantTerm(Slice(Solved.points[1], Solved.parameters[1].k))

\* the points (1, 5) and (3, 12), on a line with the constant term 3/2, have
\* given success and the secret 2
C8_FailingInput ==
    /\ pc = "done"
    /\ testCase = [keys |-> Keys(Some(3), Some(2)),
                   shares |-> (1 :> Share(<<"1", "0">>, <<"5">>)
                               @@ 3 :> Share(<<"1", "0">>, <<"1", "2">>))]
    /\ Solved.success
    /\ Solved.secret = Some(FromInt(2))

\* every point of the result has the index and the exact value of its entry
DecodedExactly ==
    \A t \in DOMAIN Solved.points[1] :
        \E i \in DOMAIN testCase.shares :
            /\ Solved.points[1][t][1] = FromInt(i)
            /\ testCase.shares[i].value
                  = encode(Magnitude(Solved.points[1][t][2]),
                           BigToNat(Magnitude(parseInt(testCase.shares[i].base, NaN))))

(* C10: a successful result, of shares that decode without loss, has a
   validation report with one entry for each decoded point, in order; an
   entry is valid iff |P(x) - y| <= tolerance for
   the polynomial P through the first k points, and isValid holds iff every
   entry is valid. *)
C10_ValidationReport ==
    (pc = "done" /\ Solved.success /\ Solved.parameters[1].k >= 1 /\ DecodedExactly) =>
        LET pts    == Solved.points[1]
            report == Solved.validation[1]
        IN  /\ Len(report.results) = Len(pts)
            /\ \A t \in DOMAIN pts :
                  /\ report.results[t].point = pts[t]
                  /\ report.results[t].valid
                        <=> WithinTolerance(Slice(pts, Solved.parameters[1].k), pts[t])
            /\ report.isValid <=> \A t \in DOMAIN pts : report.results[t].valid

\* the shares 1, 2, 4 of the line (3 * 2^51 + 1) x with k = 2: the point at 4,
\* on the line, is reported 4 off and the report is not valid
C10_FailingInput ==
    /\ pc = "done"
    /\ testCase = [keys |-> Keys(Some(4), Some(2)),
                   shares |-> PolynomialShares(<<FromInt(0),
                                  Integer(FALSE, BigAdd(BigMulSmall(Two51, 3), <<1>>))>>,
                                  {1, 2, 4})]
    /\ Solved.success
    /\ DecodedExactly
    /\ Solved.validation[1].results[3].difference = FromInt(4)
    /\ ~Solved.validation[1].results[3].valid
    /\ ~Solved.validation[1].isValid

(***************************************************************************)
(* Inputs of solveMultiple.                                                *)
(***************************************************************************)
MaxBatch == 3

\* two shares of a line with the constant term 3/2
HalfCase ==
    [keys |-> Keys(Some(3), Some(2)),
     shares |-> (1 :> Share(<<"1", "0">>, <<"5">>) @@ 3 :> Share(<<"1", "0">>, <<"1", "2">>))]

\* a value with no digit of its base
BadDigitCase ==
    [keys |-> Keys(Some(3), Some(2)),
     shares |-> (1 :> Share(<<"1", "0">>, <<"5">>) @@ 2 :> Share(<<"1", "0">>, <<"z">>))]

\* the records that are malformed: no keys, a value that does not decode
MalformedCases == {NoCase, BadDigitCase}

BatchCases == {exampleTestCase1, HalfCase} \cup MalformedCases

InitBatch ==
    /\ pc = "solveMultiple"
    /\ testCases \in UNION {[1..len -> BatchCases] : len \in 0..MaxBatch}
    /\ index = 0
    /\ results = <<>>
    /\ result = Null
    /\ Idle({"testCases"})

\* one call of the callback of map, for the element at index (from 0)
MapCallback ==
    /\ pc = "solveMultiple"
    /\ index < Len(testCases)
    /\ results' = Append(results, IndexedResult(index, solve(testCases[index + 1]).val[1]))
    /\ index' = index + 1
    /\ UNCHANGED <<pc, value, base, points, k, testCase, testCases, result>>

\* map returns the array of what the callback returned
MapReturn ==
    /\ pc = "solveMultiple"
    /\ index = Len(testCases)
    /\ result' = Return(results)
    /\ pc' = "done"
    /\ UNCHANGED <<value, base, points, k, testCase, testCases, index, results>>

NextBatch == MapCallback \/ MapReturn

SpecBatch == InitBatch /\ [][NextBatch]_vars

\* the result r is the object obj with the field testCaseIndex = i besides
Tagged(r, i, obj) ==
    /\ DOMAIN r = DOMAIN obj \cup {"testCaseIndex"}
    /\ r.testCaseIndex = i
    /\ \A f \in DOMAIN obj : r[f] = obj[f]

(* C9: solveMultiple of N input records returns N results in the order of
   the input; result i has testCaseIndex = i and is otherwise solve(input i)
   run alone; a malformed record gives success false in its own result and
   changes no other result. *)
C9_BatchInOrder ==
    /\ Len(results) = index
    /\ \A i \in DOMAIN results :
          /\ Tagged(results[i], i - 1, solve(testCases[i]).val[1])
          /\ results[i].success <=> testCases[i] \notin MalformedCases
    /\ pc = "done" =>
          /\ result = Return(results)
          /\ Len(results) = Len(testCases)

\* a batch is done in which a malformed record stands between two good ones
C9_MalformedBetween ==
    /\ pc = "done"
    /\ Len(result.val[1]) = MaxBatch
    /\ \E i \in 2..(MaxBatch - 1) :
          /\ ~result.val[1][i].success
          /\ result.val[1][i - 1].success /\ result.val[1][i + 1].success
          /\ result.val[1][i + 1].testCaseIndex = i

=============================================================================
